---------------------------- MODULE Spec2Model ----------------------------
(* A model of sipnet.Conn (src/sipnet/connection.go): one connection to a  *)
(* SIP user agent over UDP or TCP, the goroutines that run on it (the      *)
(* transport reader, the dispatcher readRequest, the listener's datagram   *)
(* injection, API callers) and the shared fields they touch.  Every access *)
(* to a shared field or channel is one step, so that the interleavings of  *)
(* the unsynchronised code are the behaviours of the model.                *)
EXTENDS Integers, Sequences, FiniteSets

(***************************************************************************)
(* Bounds of the model.                                                    *)
(***************************************************************************)
\* capacity of the inbound queue readMessage (made by the constructor)
QueueCap == 1
\* capacity of the datagram queue udpReceiver (made by the constructor)
UdpCap == 1
\* Spec: datagrams the listener injects or messages the TCP peer sends, and
\* the API calls one caller makes
MaxInput == 1
MaxCalls == 3
\* SendSpec: the same
SendInput == 2
SendCalls == 3
\* RecvSpec: the same
RecvInput == 3
RecvCalls == 2
\* GateSpec: the same
GateInput == 3
GateCalls == 4
\* LiveSpec: the same
LiveInput == 2
LiveCalls == 2
\* SniffSpec: the same
SniffInput == 2
SniffCalls == 1
\* DispSpec: the same
DispInput == 3
DispCalls == 1
\* FlagSpec: the same
FlagInput == 1
FlagCalls == 2
\* JanitorSpec: the seconds the clock runs and the Close() calls
MaxTime == 45
JanitorCalls == 1

(***************************************************************************)
(* Durations of branchJanitor, in seconds.                                 *)
(***************************************************************************)
\* line 226: time.Sleep(time.Second * 10)
SleepSecs == 10
\* line 233: 30*time.Second
MaxAgeSecs == 30

(***************************************************************************)
(* Bytes, datagrams and decoded units.                                     *)
(***************************************************************************)
\* "\r\n\r\n", the keep-alive probe
KeepAliveProbe == <<13, 10, 13, 10>>
\* "\r\n", the keep-alive reply
KeepAliveReply == <<13, 10>>
\* "SIP"
SipPrefix == <<83, 73, 80>>

\* sample inputs: "SIP/" and "SIP!" (a response line, good and malformed),
\* "INV " and "INV!" (a request line, good and malformed), and the probe
DgResponse == <<83, 73, 80, 47>>
DgResponseBad == <<83, 73, 80, 33>>
DgRequest == <<73, 78, 86, 32>>
DgRequestBad == <<73, 78, 86, 33>>
Messages == {DgResponse, DgResponseBad, DgRequest, DgRequestBad}
\* "SI", a datagram shorter than the three bytes line 102 slices
DgShort == <<83, 73>>
\* what may follow a short datagram within the capacity of its slice: the
\* bytes an earlier datagram left in the listener's buffer ("P/", or zeros)
StaleTails == {<<80, 47>>, <<0, 0>>}
Datagrams == Messages \cup {KeepAliveProbe}

\* what the API caller writes: "A", "B"
WriteArgs == {<<65>>, <<66>>}

\* the bytes a failed sniff read leaves in buf: make([]byte, 3)
ZeroBuf == <<0, 0, 0>>

Take(s, n) == SubSeq(s, 1, IF Len(s) < n THEN Len(s) ELSE n)

\* The external parser, a pure function of the bytes: a line ending in "!"
\* or holding no printable method/version does not decode.
Malformed(b) == Len(b) < 4 \/ b[Len(b)] = 33 \/ b[1] = 0
ReadResponse(b) == IF Malformed(b) THEN "ParseError" ELSE "Response"
ReadRequest(b) == IF Malformed(b) THEN "ParseError" ELSE "Request"

NoUnit == [kind |-> "none", id |-> 0, src |-> <<>>, via |-> "none"]

\* lines 102-117 and 135-150: compare the three sniffed bytes with "SIP",
\* call the one decoder they select on the message b; the unit is its value
\* or its error
DecodeSniffed(sniff, b, n) ==
  IF sniff = SipPrefix
    THEN [kind |-> ReadResponse(b), id |-> n, src |-> b, via |-> "ReadResponse"]
    ELSE [kind |-> ReadRequest(b), id |-> n, src |-> b, via |-> "ReadRequest"]

\* the same when the message holds the three bytes: received[:3] on UDP, buf
\* on TCP
Decode(b, n) == DecodeSniffed(Take(b, 3), b, n)

(***************************************************************************)
(* Tasks.                                                                  *)
(***************************************************************************)
Users == {"u1", "u2"}
Procs == Users \cup {"reader", "disp", "reg", "janitor"}

\* the branch identifiers the upper layer records
Branches == {"z9hG4bK123"}

VARIABLES
  transport,      \* c.transport: "udp" or "tcp"
  hasListener,    \* c.listener != nil
  closed,         \* c.closed
  locked,         \* c.locked
  writeBuffer,    \* c.writeBuffer
  readMessage,    \* c.readMessage, the inbound queue
  udpReceiver,    \* c.udpReceiver, the datagram queue
  udpClosed,      \* close(c.udpReceiver) has happened
  registered,     \* c.address is a key of c.listener.udpPool
  sockClosed,     \* c.conn.Close() has happened (TCP)
  stream,         \* TCP: the messages the peer has sent and the reader has not read
  streamErr,      \* TCP: what a read at the end of stream yields ("none": it blocks)
  wire,           \* the transmissions made on c.conn, in order
  pc,             \* each task's position
  arg,            \* each task's local: the bytes to write, the datagram, the unit
  res,            \* each task's last returned result
  after,          \* the call in progress began after a Close() had returned
  calls,          \* API calls each caller has left
  inputs,         \* inputs the environment has left
  fault,          \* the panic that ended the program, or "none"
  hist,           \* history: what the claims are stated about
  now,            \* time.Now(), in seconds
  wakeAt,         \* when the janitor's time.Sleep returns
  receivedBranches, \* c.receivedBranches: branch -> last-seen time
  branchMutex     \* c.branchMutex: the task that holds it, or "free"

vars == <<transport, hasListener, closed, locked, writeBuffer, readMessage,
          udpReceiver, udpClosed, registered, sockClosed, stream, streamErr,
          wire, pc, arg, res, after, calls, inputs, fault, hist,
          now, wakeAt, receivedBranches, branchMutex>>

\* the clock and the branch table, which only the janitor and the upper
\* layer touch
timeVars == <<now, wakeAt, receivedBranches, branchMutex>>

NoRes == [op |-> "none", code |-> "none", unit |-> NoUnit, after |-> FALSE]
NoArg == [bytes |-> <<>>, unit |-> NoUnit, err |-> "none", viaLock |-> FALSE]

HistInit ==
  [nextId |-> 1,            \* units the transport reader has decoded, plus one
   enq |-> <<>>,            \* the units the reader has enqueued, in order
   rcvd |-> <<>>,           \* the datagrams or messages the reader has received
   delivered |-> <<>>,      \* unit ids in the order of their final dequeue
   session |-> <<>>,        \* ids Read() returned in the current Lock() session
   probes |-> 0,            \* keep-alive probes the reader has handled while open
   written |-> <<>>,        \* bytes passed to Write() since the last reset
   flushed |-> 0,           \* Flush() calls that returned after their attempt
   closeReturned |-> FALSE, \* some Close() has returned
   deregs |-> 0,            \* deletions from the listener's udpPool
   udpCloses |-> 0,         \* close(c.udpReceiver) executions
   sockCloses |-> 0,        \* c.conn.Close() executions
   sniffFailed |-> FALSE,   \* the reader's last sniff read failed
   evicted |-> {}]          \* the ages at which the janitor removed an entry

Start(kinds, nInputs, nCalls) ==
  /\ transport \in kinds
  /\ hasListener \in BOOLEAN
  /\ transport = "tcp" => hasListener
  /\ closed = FALSE
  /\ locked = FALSE
  /\ writeBuffer = <<>>
  /\ readMessage = <<>>
  /\ udpReceiver = <<>>
  /\ udpClosed = FALSE
  /\ registered = (transport = "udp" /\ hasListener)
  /\ sockClosed = FALSE
  /\ stream = <<>>
  /\ streamErr = "none"
  /\ wire = <<>>
  /\ pc = [p \in Procs |->
             CASE p \in Users -> "idle"
               [] p = "reader" -> IF transport = "udp" THEN "u_recv" ELSE "t_read"
               [] p = "disp" -> "q_closed"
               [] p = "reg" -> "g_idle"
               [] OTHER -> "j_sleep"]
  /\ arg = [p \in Procs |-> NoArg]
  /\ res = [p \in Procs |-> NoRes]
  /\ after = [p \in Procs |-> FALSE]
  /\ calls = [u \in Users |-> nCalls]
  /\ inputs = nInputs
  /\ fault = "none"
  /\ hist = HistInit
  /\ now = 0
  /\ wakeAt = SleepSecs
  /\ receivedBranches = [b \in {} |-> 0]
  /\ branchMutex = "free"

Init == Start({"udp", "tcp"}, MaxInput, MaxCalls)

Alive == fault = "none"

\* where a task goes when the function it called returns
Home(t) ==
  CASE t \in Users -> "idle"
    [] t = "reader" -> IF transport = "udp" THEN "u_recv" ELSE "done"
    [] OTHER -> "done"

Result(t, op, code, u) == [op |-> op, code |-> code, unit |-> u, after |-> after[t]]

Begins(u) ==
  /\ Alive
  /\ pc[u] = "idle"
  /\ calls[u] > 0
  /\ calls' = [calls EXCEPT ![u] = @ - 1]
  /\ after' = [after EXCEPT ![u] = hist.closeReturned]

(***************************************************************************)
(* Read, lines 31-42.                                                      *)
(***************************************************************************)
\* line 32: if c.closed { return io.EOF }
ReadCallNoCheck(u) ==
  /\ Begins(u)
  /\ pc' = [pc EXCEPT ![u] = "read_recv"]
  /\ UNCHANGED <<timeVars, transport, hasListener, closed, locked, writeBuffer, readMessage,
                 udpReceiver, udpClosed, registered, sockClosed, stream, streamErr,
                 wire, arg, res, inputs, fault, hist>>
ReadCall(u) ==
  /\ Begins(u)
  /\ IF closed
       THEN /\ res' = [res EXCEPT ![u] =
                         [op |-> "Read", code |-> "EOF", unit |-> NoUnit,
                          after |-> hist.closeReturned]]
            /\ pc' = pc
       ELSE /\ pc' = [pc EXCEPT ![u] = "read_recv"]
            /\ res' = res
  /\ UNCHANGED <<timeVars, transport, hasListener, closed, locked, writeBuffer, readMessage,
                 udpReceiver, udpClosed, registered, sockClosed, stream, streamErr,
                 wire, arg, inputs, fault, hist>>

\* line 36: msg, more := <-c.readMessage (the queue is never closed: nothing
\* in the package closes c.readMessage)
ReadRecv(u) ==
  /\ Alive
  /\ pc[u] = "read_recv"
  /\ readMessage # <<>>
  /\ readMessage' = Tail(readMessage)
  /\ pc' = [pc EXCEPT ![u] = "idle"]
  /\ res' = [res EXCEPT ![u] = Result(u, "Read", "unit", Head(readMessage))]
  /\ hist' = [hist EXCEPT
                !.delivered = Append(@, Head(readMessage).id),
                !.session = IF locked THEN Append(@, Head(readMessage).id) ELSE @]
  /\ UNCHANGED <<timeVars, transport, hasListener, closed, locked, writeBuffer,
                 udpReceiver, udpClosed, registered, sockClosed, stream, streamErr,
                 wire, arg, after, calls, inputs, fault>>

(***************************************************************************)
(* Lock and Unlock, lines 46-54.                                           *)
(***************************************************************************)
Lock(u) ==
  /\ Begins(u)
  /\ locked' = TRUE
  /\ hist' = [hist EXCEPT !.session = <<>>]
  /\ res' = [res EXCEPT ![u] = [op |-> "Lock", code |-> "nil", unit |-> NoUnit,
                                after |-> hist.closeReturned]]
  /\ UNCHANGED <<timeVars, transport, hasListener, closed, writeBuffer, readMessage,
                 udpReceiver, udpClosed, registered, sockClosed, stream, streamErr,
                 wire, pc, arg, inputs, fault>>

UnlockOpens(u) ==
  /\ Begins(u)
  /\ closed' = FALSE
  /\ res' = [res EXCEPT ![u] = [op |-> "Unlock", code |-> "nil", unit |-> NoUnit,
                                after |-> hist.closeReturned]]
  /\ UNCHANGED <<timeVars, transport, hasListener, locked, writeBuffer, readMessage,
                 udpReceiver, udpClosed, registered, sockClosed, stream, streamErr,
                 wire, pc, arg, inputs, fault, hist>>
Unlock(u) ==
  /\ Begins(u)
  /\ locked' = FALSE
  /\ res' = [res EXCEPT ![u] = [op |-> "Unlock", code |-> "nil", unit |-> NoUnit,
                                after |-> hist.closeReturned]]
  /\ UNCHANGED <<timeVars, transport, hasListener, closed, writeBuffer, readMessage,
                 udpReceiver, udpClosed, registered, sockClosed, stream, streamErr,
                 wire, pc, arg, inputs, fault, hist>>

(***************************************************************************)
(* Write, lines 164-170.                                                   *)
(***************************************************************************)
\* line 165: if c.closed { return 0, io.ErrClosedPipe }; t has just called
\* Write(b) and `back` is where it goes if Write returns at once
WriteEnter(t, b, back, aft) ==
  IF closed
    THEN /\ pc' = [pc EXCEPT ![t] = back]
         /\ res' = [res EXCEPT ![t] =
                      [op |-> "Write", code |-> "ErrClosedPipe", unit |-> NoUnit,
                       after |-> aft]]
         /\ arg' = arg
    ELSE /\ pc' = [pc EXCEPT ![t] = "write_app"]
         /\ arg' = [arg EXCEPT ![t].bytes = b]
         /\ res' = res

WriteCall(u, b) ==
  /\ Begins(u)
  /\ WriteEnter(u, b, "idle", hist.closeReturned)
  /\ UNCHANGED <<timeVars, transport, hasListener, closed, locked, writeBuffer, readMessage,
                 udpReceiver, udpClosed, registered, sockClosed, stream, streamErr,
                 wire, inputs, fault, hist>>

\* line 169: return c.writeBuffer.Write(b)
WriteAppOverwrite(t) ==
  /\ Alive
  /\ pc[t] = "write_app"
  /\ writeBuffer' = arg[t].bytes
  /\ hist' = [hist EXCEPT !.written = @ \o arg[t].bytes]
  /\ pc' = [pc EXCEPT ![t] = Home(t)]
  /\ res' = [res EXCEPT ![t] = Result(t, "Write", "nil", NoUnit)]
  /\ UNCHANGED <<timeVars, transport, hasListener, closed, locked, readMessage,
                 udpReceiver, udpClosed, registered, sockClosed, stream, streamErr,
                 wire, arg, after, calls, inputs, fault>>
WriteApp(t) ==
  /\ Alive
  /\ pc[t] = "write_app"
  /\ writeBuffer' = writeBuffer \o arg[t].bytes
  /\ hist' = [hist EXCEPT !.written = @ \o arg[t].bytes]
  /\ pc' = [pc EXCEPT ![t] = Home(t)]
  /\ res' = [res EXCEPT ![t] = Result(t, "Write", "nil", NoUnit)]
  /\ UNCHANGED <<timeVars, transport, hasListener, closed, locked, readMessage,
                 udpReceiver, udpClosed, registered, sockClosed, stream, streamErr,
                 wire, arg, after, calls, inputs, fault>>

(***************************************************************************)
(* Flush, lines 174-190.                                                   *)
(***************************************************************************)
\* line 175: if c.closed { return io.ErrClosedPipe }
FlushCall(u) ==
  /\ Begins(u)
  /\ IF closed
       THEN /\ res' = [res EXCEPT ![u] =
                         [op |-> "Flush", code |-> "ErrClosedPipe", unit |-> NoUnit,
                          after |-> hist.closeReturned]]
            /\ pc' = pc
       ELSE /\ pc' = [pc EXCEPT ![u] = "flush_send"]
            /\ res' = res
  /\ UNCHANGED <<timeVars, transport, hasListener, closed, locked, writeBuffer, readMessage,
                 udpReceiver, udpClosed, registered, sockClosed, stream, streamErr,
                 wire, arg, inputs, fault, hist>>

\* lines 181 and 186: one WriteTo (UDP) or Write (TCP) of the whole buffer;
\* the transmission succeeds or fails, and fails on a closed stream socket
FlushSend(u) ==
  /\ Alive
  /\ pc[u] = "flush_send"
  /\ \E ok \in BOOLEAN :
       /\ (transport = "tcp" /\ sockClosed) => ~ok
       /\ wire' = Append(wire, [payload |-> writeBuffer, ok |-> ok,
                                expect |-> hist.written, by |-> u,
                                kind |-> transport])
       /\ arg' = [arg EXCEPT ![u].err = IF ok THEN "nil" ELSE "ioerr"]
  /\ pc' = [pc EXCEPT ![u] = "flush_reset"]
  /\ UNCHANGED <<timeVars, transport, hasListener, closed, locked, writeBuffer, readMessage,
                 udpReceiver, udpClosed, registered, sockClosed, stream, streamErr,
                 res, after, calls, inputs, fault, hist>>

\* lines 182-183 and 187-189: c.writeBuffer.Reset(); return err
FlushResetKeeps(u) ==
  /\ Alive
  /\ pc[u] = "flush_reset"
  /\ writeBuffer' = writeBuffer
  /\ hist' = [hist EXCEPT !.written = <<>>, !.flushed = @ + 1]
  /\ pc' = [pc EXCEPT ![u] = "idle"]
  /\ res' = [res EXCEPT ![u] = Result(u, "Flush", arg[u].err, NoUnit)]
  /\ arg' = [arg EXCEPT ![u].err = "none"]
  /\ UNCHANGED <<timeVars, transport, hasListener, closed, locked, readMessage,
                 udpReceiver, udpClosed, registered, sockClosed, stream, streamErr,
                 wire, after, calls, inputs, fault>>
FlushReset(u) ==
  /\ Alive
  /\ pc[u] = "flush_reset"
  /\ writeBuffer' = <<>>
  /\ hist' = [hist EXCEPT !.written = <<>>, !.flushed = @ + 1]
  /\ pc' = [pc EXCEPT ![u] = "idle"]
  /\ res' = [res EXCEPT ![u] = Result(u, "Flush", arg[u].err, NoUnit)]
  /\ arg' = [arg EXCEPT ![u].err = "none"]
  /\ UNCHANGED <<timeVars, transport, hasListener, closed, locked, readMessage,
                 udpReceiver, udpClosed, registered, sockClosed, stream, streamErr,
                 wire, after, calls, inputs, fault>>

(***************************************************************************)
(* Close, lines 204-222.                                                   *)
(***************************************************************************)
\* line 205: if c.closed { return nil }; t has just called Close()
CloseEnter(t, aft) ==
  IF closed
    THEN /\ pc' = [pc EXCEPT ![t] = IF t \in Users THEN "idle" ELSE "done"]
         /\ res' = [res EXCEPT ![t] =
                      [op |-> "Close", code |-> "nil", unit |-> NoUnit, after |-> aft]]
         /\ hist' = [hist EXCEPT !.closeReturned = TRUE]
    ELSE /\ pc' = [pc EXCEPT ![t] = "close_set"]
         /\ res' = res
         /\ hist' = hist

CloseCall(u) ==
  /\ Begins(u)
  /\ CloseEnter(u, hist.closeReturned)
  /\ UNCHANGED <<timeVars, transport, hasListener, closed, locked, writeBuffer, readMessage,
                 udpReceiver, udpClosed, registered, sockClosed, stream, streamErr,
                 wire, arg, inputs, fault>>

\* line 209: c.closed = true
CloseSet(t) ==
  /\ Alive
  /\ pc[t] = "close_set"
  /\ closed' = TRUE
  /\ pc' = [pc EXCEPT ![t] = "close_fin"]
  /\ UNCHANGED <<timeVars, transport, hasListener, locked, writeBuffer, readMessage,
                 udpReceiver, udpClosed, registered, sockClosed, stream, streamErr,
                 wire, arg, res, after, calls, inputs, fault, hist>>

\* lines 211-221: UDP: delete the udpPool entry under udpPoolMutex (when there
\* is a listener) and close(c.udpReceiver), which panics on a closed channel;
\* TCP: c.conn.Close(), which returns an error on a closed socket
CloseFin(t) ==
  /\ Alive
  /\ pc[t] = "close_fin"
  /\ IF transport = "udp"
       THEN /\ registered' = FALSE
            /\ sockClosed' = sockClosed
            /\ IF udpClosed
                 THEN /\ fault' = "close of closed channel"
                      /\ udpClosed' = udpClosed
                      /\ pc' = pc
                      /\ res' = res
                      /\ hist' = [hist EXCEPT
                                    !.deregs = IF hasListener THEN @ + 1 ELSE @,
                                    !.udpCloses = @ + 1]
                 ELSE /\ fault' = fault
                      /\ udpClosed' = TRUE
                      /\ pc' = [pc EXCEPT ![t] = IF t \in Users THEN "idle" ELSE "done"]
                      /\ res' = [res EXCEPT ![t] = Result(t, "Close", "nil", NoUnit)]
                      /\ hist' = [hist EXCEPT
                                    !.deregs = IF hasListener THEN @ + 1 ELSE @,
                                    !.udpCloses = @ + 1,
                                    !.closeReturned = TRUE]
       ELSE /\ sockClosed' = TRUE
            /\ pc' = [pc EXCEPT ![t] = IF t \in Users THEN "idle" ELSE "done"]
            /\ res' = [res EXCEPT ![t] =
                         Result(t, "Close", IF sockClosed THEN "ioerr" ELSE "nil", NoUnit)]
            /\ hist' = [hist EXCEPT !.sockCloses = @ + 1, !.closeReturned = TRUE]
            /\ UNCHANGED <<registered, udpClosed, fault>>
  /\ UNCHANGED <<timeVars, transport, hasListener, closed, locked, writeBuffer, readMessage,
                 udpReceiver, stream, streamErr, wire, arg, after, calls, inputs>>

(***************************************************************************)
(* udpReader, lines 87-120.                                                *)
(***************************************************************************)
\* line 95: bytes.Compare(received, []byte("\r\n\r\n")) == 0
IsKeepAliveNever(b) == FALSE
IsKeepAlive(b) == b = KeepAliveProbe

\* line 102: received[:3].  The slice expression reaches up to the capacity
\* of received, which the listener chose: on a datagram of fewer than three
\* bytes it either panics (capacity below three) or yields the datagram
\* followed by whatever lies behind it in the listener's buffer.  NoSniff
\* stands for the panic.
NoSniff == <<>>
Sniffs(d) ==
  IF Len(d) >= 3
    THEN {Take(d, 3)}
    ELSE {NoSniff} \cup {Take(d \o t, 3) : t \in StaleTails}

\* lines 89-92 and the local work of 94-117: receive a datagram, or exit on
\* the closed and drained queue; a probe goes to line 97, anything else is
\* decoded and goes to the send of its unit
UdpRecv ==
  /\ Alive
  /\ pc["reader"] = "u_recv"
  /\ IF udpReceiver # <<>>
       THEN /\ udpReceiver' = Tail(udpReceiver)
            /\ IF IsKeepAlive(Head(udpReceiver))
                 THEN /\ pc' = [pc EXCEPT !["reader"] = "u_keepalive"]
                      /\ arg' = [arg EXCEPT !["reader"].bytes = Head(udpReceiver)]
                      /\ hist' = [hist EXCEPT !.rcvd = Append(@, Head(udpReceiver))]
                      /\ fault' = fault
                 ELSE /\ hist' = [hist EXCEPT !.rcvd = Append(@, Head(udpReceiver)),
                                              !.nextId = @ + 1]
                      /\ \E sniff \in Sniffs(Head(udpReceiver)) :
                           IF sniff = NoSniff
                             THEN /\ fault' = "slice bounds out of range"
                                  /\ UNCHANGED <<pc, arg>>
                             ELSE /\ pc' = [pc EXCEPT !["reader"] = "u_send"]
                                  /\ arg' = [arg EXCEPT !["reader"].unit =
                                               DecodeSniffed(sniff, Head(udpReceiver),
                                                             hist.nextId)]
                                  /\ fault' = fault
       ELSE /\ udpClosed
            /\ pc' = [pc EXCEPT !["reader"] = "done"]
            /\ UNCHANGED <<udpReceiver, arg, hist, fault>>
  /\ UNCHANGED <<timeVars, transport, hasListener, closed, locked, writeBuffer, readMessage,
                 udpClosed, registered, sockClosed, stream, streamErr,
                 wire, res, after, calls, inputs>>

\* lines 96-98: c.Write([]byte("\r\n")); continue.  Nothing flushes here.
UdpKeepAlive ==
  /\ Alive
  /\ pc["reader"] = "u_keepalive"
  /\ WriteEnter("reader", KeepAliveReply, "u_recv", FALSE)
  /\ hist' = [hist EXCEPT !.probes = IF closed THEN @ ELSE @ + 1]
  /\ UNCHANGED <<timeVars, transport, hasListener, closed, locked, writeBuffer, readMessage,
                 udpReceiver, udpClosed, registered, sockClosed, stream, streamErr,
                 wire, after, calls, inputs, fault>>

\* lines 105, 108, 114, 118: c.readMessage <- unit, blocking while it is full
UdpSendSkipsErrors ==
  /\ Alive
  /\ pc["reader"] = "u_send"
  /\ Len(readMessage) < QueueCap
  /\ IF arg["reader"].unit.kind = "ParseError"
       THEN UNCHANGED <<readMessage, hist>>
       ELSE /\ readMessage' = Append(readMessage, arg["reader"].unit)
            /\ hist' = [hist EXCEPT !.enq = Append(@, arg["reader"].unit)]
  /\ pc' = [pc EXCEPT !["reader"] = "u_recv"]
  /\ arg' = [arg EXCEPT !["reader"].unit = NoUnit]
  /\ UNCHANGED <<timeVars, transport, hasListener, closed, locked, writeBuffer,
                 udpReceiver, udpClosed, registered, sockClosed, stream, streamErr,
                 wire, res, after, calls, inputs, fault>>
UdpSend ==
  /\ Alive
  /\ pc["reader"] = "u_send"
  /\ Len(readMessage) < QueueCap
  /\ readMessage' = Append(readMessage, arg["reader"].unit)
  /\ hist' = [hist EXCEPT !.enq = Append(@, arg["reader"].unit)]
  /\ pc' = [pc EXCEPT !["reader"] = "u_recv"]
  /\ arg' = [arg EXCEPT !["reader"].unit = NoUnit]
  /\ UNCHANGED <<timeVars, transport, hasListener, closed, locked, writeBuffer,
                 udpReceiver, udpClosed, registered, sockClosed, stream, streamErr,
                 wire, res, after, calls, inputs, fault>>

(***************************************************************************)
(* writeReceivedUDP, lines 155-161, called by the listener.                *)
(***************************************************************************)
\* line 156: if c.closed { return }
RegCall(d) ==
  /\ Alive
  /\ transport = "udp"
  /\ pc["reg"] = "g_idle"
  /\ inputs > 0
  /\ inputs' = inputs - 1
  /\ IF closed
       THEN /\ res' = [res EXCEPT !["reg"] =
                         [op |-> "writeReceivedUDP", code |-> "dropped",
                          unit |-> NoUnit, after |-> FALSE]]
            /\ UNCHANGED <<pc, arg>>
       ELSE /\ pc' = [pc EXCEPT !["reg"] = "g_send"]
            /\ arg' = [arg EXCEPT !["reg"].bytes = d]
            /\ res' = res
  /\ UNCHANGED <<timeVars, transport, hasListener, closed, locked, writeBuffer, readMessage,
                 udpReceiver, udpClosed, registered, sockClosed, stream, streamErr,
                 wire, after, calls, fault, hist>>

\* line 160: c.udpReceiver <- b, which panics on a closed channel
RegSend ==
  /\ Alive
  /\ pc["reg"] = "g_send"
  /\ IF udpClosed
       THEN /\ fault' = "send on closed channel"
            /\ UNCHANGED <<udpReceiver, pc, res>>
       ELSE /\ Len(udpReceiver) < UdpCap
            /\ udpReceiver' = Append(udpReceiver, arg["reg"].bytes)
            /\ pc' = [pc EXCEPT !["reg"] = "g_idle"]
            /\ res' = [res EXCEPT !["reg"] =
                         [op |-> "writeReceivedUDP", code |-> "sent",
                          unit |-> NoUnit, after |-> FALSE]]
            /\ fault' = fault
  /\ UNCHANGED <<timeVars, transport, hasListener, closed, locked, writeBuffer, readMessage,
                 udpClosed, registered, sockClosed, stream, streamErr,
                 wire, arg, after, calls, inputs, hist>>

(***************************************************************************)
(* tcpReader, lines 122-153, and its peer.                                 *)
(***************************************************************************)
\* the peer sends one more message
PeerSend(m) ==
  /\ Alive
  /\ transport = "tcp"
  /\ inputs > 0
  /\ streamErr = "none"
  /\ inputs' = inputs - 1
  /\ stream' = Append(stream, m)
  /\ UNCHANGED <<timeVars, transport, hasListener, closed, locked, writeBuffer, readMessage,
                 udpReceiver, udpClosed, registered, sockClosed, streamErr,
                 wire, pc, arg, res, after, calls, fault, hist>>

\* the stream ends: the peer closes it between messages ("EOF"), or inside
\* the three sniffed bytes ("UEOF"), or the socket breaks ("ERR")
PeerEnd(e) ==
  /\ Alive
  /\ transport = "tcp"
  /\ streamErr = "none"
  /\ streamErr' = e
  /\ UNCHANGED <<timeVars, transport, hasListener, closed, locked, writeBuffer, readMessage,
                 udpReceiver, udpClosed, registered, sockClosed, stream,
                 wire, pc, arg, res, after, calls, inputs, fault, hist>>

\* line 125: what io.ReadFull(c.conn, buf) returns now: a read of the socket
\* this side closed fails with an error that is no end of stream; "block"
\* when there is nothing to read yet
SniffErr ==
  CASE sockClosed -> "ERR"
    [] stream # <<>> -> "nil"
    [] streamErr # "none" -> streamErr
    [] OTHER -> "block"

\* line 127: err == io.ErrUnexpectedEOF || err == io.EOF
IsEndOfStream(e) == e \in {"EOF", "UEOF"}

\* lines 124-150 up to the send: the sniff read; on an end of stream Close()
\* and return; otherwise (no error, or any other error) decode from buf and
\* the rest of the stream
TcpRead ==
  /\ Alive
  /\ pc["reader"] = "t_read"
  /\ SniffErr # "block"
  /\ IF SniffErr = "nil"
       THEN /\ stream' = Tail(stream)
            /\ arg' = [arg EXCEPT !["reader"].unit = Decode(Head(stream), hist.nextId)]
            /\ pc' = [pc EXCEPT !["reader"] = "t_send"]
            /\ hist' = [hist EXCEPT !.rcvd = Append(@, Head(stream)),
                                    !.nextId = @ + 1, !.sniffFailed = FALSE]
            /\ res' = res
       ELSE IF IsEndOfStream(SniffErr)
              THEN /\ CloseEnter("reader", FALSE)
                   /\ UNCHANGED <<stream, arg>>
              ELSE /\ arg' = [arg EXCEPT !["reader"].unit = Decode(ZeroBuf, hist.nextId)]
                   /\ pc' = [pc EXCEPT !["reader"] = "t_send"]
                   /\ hist' = [hist EXCEPT !.nextId = @ + 1, !.sniffFailed = TRUE]
                   /\ UNCHANGED <<stream, res>>
  /\ UNCHANGED <<timeVars, transport, hasListener, closed, locked, writeBuffer, readMessage,
                 udpReceiver, udpClosed, registered, sockClosed, streamErr,
                 wire, after, calls, inputs, fault>>

\* lines 138, 141, 147, 151: c.readMessage <- unit, blocking while it is full
TcpSend ==
  /\ Alive
  /\ pc["reader"] = "t_send"
  /\ Len(readMessage) < QueueCap
  /\ readMessage' = Append(readMessage, arg["reader"].unit)
  /\ hist' = [hist EXCEPT !.enq = Append(@, arg["reader"].unit)]
  /\ pc' = [pc EXCEPT !["reader"] = "t_read"]
  /\ arg' = [arg EXCEPT !["reader"].unit = NoUnit]
  /\ UNCHANGED <<timeVars, transport, hasListener, closed, locked, writeBuffer,
                 udpReceiver, udpClosed, registered, sockClosed, stream, streamErr,
                 wire, res, after, calls, inputs, fault>>

(***************************************************************************)
(* readRequest, lines 56-85, called again by the dispatcher after each     *)
(* return but the end of stream.                                           *)
(***************************************************************************)
Without(q, n) == SelectSeq(q, LAMBDA x : x # n)

\* lines 58-60: if c.closed { return nil, io.EOF }
DispClosed ==
  /\ Alive
  /\ pc["disp"] = "q_closed"
  /\ IF closed
       THEN /\ pc' = [pc EXCEPT !["disp"] = "done"]
            /\ res' = [res EXCEPT !["disp"] =
                         [op |-> "readRequest", code |-> "EOF", unit |-> NoUnit,
                          after |-> FALSE]]
       ELSE /\ pc' = [pc EXCEPT !["disp"] = "q_lock"]
            /\ res' = res
  /\ UNCHANGED <<timeVars, transport, hasListener, closed, locked, writeBuffer, readMessage,
                 udpReceiver, udpClosed, registered, sockClosed, stream, streamErr,
                 wire, arg, after, calls, inputs, fault, hist>>

\* lines 62-64: for c.locked { time.Sleep(2s) }: it goes on once it sees
\* the gate unlocked
DispLock ==
  /\ Alive
  /\ pc["disp"] = "q_lock"
  /\ ~locked
  /\ pc' = [pc EXCEPT !["disp"] = "q_recv"]
  /\ UNCHANGED <<timeVars, transport, hasListener, closed, locked, writeBuffer, readMessage,
                 udpReceiver, udpClosed, registered, sockClosed, stream, streamErr,
                 wire, arg, res, after, calls, inputs, fault, hist>>

\* line 66: msg, more := <-c.readMessage
DispRecv ==
  /\ Alive
  /\ pc["disp"] = "q_recv"
  /\ readMessage # <<>>
  /\ readMessage' = Tail(readMessage)
  /\ arg' = [arg EXCEPT !["disp"].unit = Head(readMessage),
                        !["disp"].viaLock = locked]
  /\ hist' = [hist EXCEPT !.delivered = Append(@, Head(readMessage).id)]
  /\ pc' = [pc EXCEPT !["disp"] = "q_check"]
  /\ UNCHANGED <<timeVars, transport, hasListener, closed, locked, writeBuffer,
                 udpReceiver, udpClosed, registered, sockClosed, stream, streamErr,
                 wire, res, after, calls, inputs, fault>>

\* lines 71-83: if c.locked, go and put msg back; else return an error or a
\* request, and drop anything else with a warning
DispCheckNoDiscard ==
  /\ Alive
  /\ pc["disp"] = "q_check"
  /\ pc' = [pc EXCEPT !["disp"] = "q_closed"]
  /\ res' = [res EXCEPT !["disp"] =
               [op |-> "readRequest",
                code |-> IF arg["disp"].unit.kind = "ParseError"
                           THEN "error" ELSE "request",
                unit |-> arg["disp"].unit,
                after |-> arg["disp"].viaLock]]
  /\ arg' = [arg EXCEPT !["disp"].unit = NoUnit, !["disp"].viaLock = FALSE]
  /\ UNCHANGED <<timeVars, transport, hasListener, closed, locked, writeBuffer, readMessage,
                 udpReceiver, udpClosed, registered, sockClosed, stream, streamErr,
                 wire, after, calls, inputs, fault, hist>>
DispCheck ==
  /\ Alive
  /\ pc["disp"] = "q_check"
  /\ IF locked
       THEN /\ pc' = [pc EXCEPT !["disp"] = "q_requeue"]
            /\ hist' = [hist EXCEPT !.delivered = Without(@, arg["disp"].unit.id)]
            /\ UNCHANGED <<arg, res>>
       ELSE /\ pc' = [pc EXCEPT !["disp"] = "q_closed"]
            /\ res' = [res EXCEPT !["disp"] =
                         [op |-> "readRequest",
                          code |-> CASE arg["disp"].unit.kind = "ParseError" -> "error"
                                     [] arg["disp"].unit.kind = "Request" -> "request"
                                     [] OTHER -> "discarded",
                          unit |-> arg["disp"].unit,
                          after |-> arg["disp"].viaLock]]
            /\ arg' = [arg EXCEPT !["disp"].unit = NoUnit, !["disp"].viaLock = FALSE]
            /\ hist' = hist
  /\ UNCHANGED <<timeVars, transport, hasListener, closed, locked, writeBuffer, readMessage,
                 udpReceiver, udpClosed, registered, sockClosed, stream, streamErr,
                 wire, after, calls, inputs, fault>>

\* lines 72-73: c.readMessage <- msg; continue: a send at the tail of the
\* queue, blocking while it is full
DispRequeue ==
  /\ Alive
  /\ pc["disp"] = "q_requeue"
  /\ Len(readMessage) < QueueCap
  /\ readMessage' = Append(readMessage, arg["disp"].unit)
  /\ arg' = [arg EXCEPT !["disp"].unit = NoUnit, !["disp"].viaLock = FALSE]
  /\ pc' = [pc EXCEPT !["disp"] = "q_closed"]
  /\ UNCHANGED <<timeVars, transport, hasListener, closed, locked, writeBuffer,
                 udpReceiver, udpClosed, registered, sockClosed, stream, streamErr,
                 wire, res, after, calls, inputs, fault, hist>>

(***************************************************************************)
(* branchJanitor, lines 224-239.                                           *)
(***************************************************************************)
\* the rest of the model, which no step of the janitor or of the upper
\* layer's bookkeeping touches
connVars == <<transport, hasListener, closed, locked, writeBuffer, readMessage,
              udpReceiver, udpClosed, registered, sockClosed, stream, streamErr,
              wire, arg, res, after, calls, inputs, fault>>

\* line 233: time.Now().Sub(t) > 30*time.Second
ExpiredAtLimit(t) == now - t >= MaxAgeSecs
Expired(t) == now - t > MaxAgeSecs

\* lines 232-236: the table after the scan
Scanned ==
  [b \in {x \in DOMAIN receivedBranches : ~Expired(receivedBranches[x])} |->
     receivedBranches[b]]

\* the ages of the entries the scan removes
ScannedAges ==
  {now - receivedBranches[x] : x \in {y \in DOMAIN receivedBranches :
                                        Expired(receivedBranches[y])}}

\* one whole tick, when the time of the sleep does not matter: time.Sleep
\* returns; if c.closed return; else scan the branch table under branchMutex
\* and sleep again
BranchJanitor ==
  /\ Alive
  /\ pc["janitor"] = "j_sleep"
  /\ IF closed
       THEN /\ pc' = [pc EXCEPT !["janitor"] = "done"]
            /\ UNCHANGED <<receivedBranches, hist>>
       ELSE /\ branchMutex = "free"
            /\ receivedBranches' = Scanned
            /\ hist' = [hist EXCEPT !.evicted = @ \cup ScannedAges]
            /\ pc' = pc
  /\ UNCHANGED <<connVars, now, wakeAt, branchMutex>>

\* The same tick step by step, on the clock.
\* lines 226-229: time.Sleep(10s) returns when its time has come; if
\* c.closed { return }
JanitorWake ==
  /\ Alive
  /\ pc["janitor"] = "j_sleep"
  /\ now >= wakeAt
  /\ pc' = [pc EXCEPT !["janitor"] = IF closed THEN "done" ELSE "j_lock"]
  /\ UNCHANGED <<connVars, timeVars, hist>>

\* line 231: c.branchMutex.Lock()
JanitorLock ==
  /\ Alive
  /\ pc["janitor"] = "j_lock"
  /\ branchMutex = "free"
  /\ branchMutex' = "janitor"
  /\ pc' = [pc EXCEPT !["janitor"] = "j_scan"]
  /\ UNCHANGED <<connVars, now, wakeAt, receivedBranches, hist>>

\* lines 232-236: delete every entry older than 30 s
JanitorScan ==
  /\ Alive
  /\ pc["janitor"] = "j_scan"
  /\ receivedBranches' = Scanned
  /\ hist' = [hist EXCEPT !.evicted = @ \cup ScannedAges]
  /\ pc' = [pc EXCEPT !["janitor"] = "j_unlock"]
  /\ UNCHANGED <<connVars, now, wakeAt, branchMutex>>

\* line 237 and back to line 226: c.branchMutex.Unlock(); time.Sleep(10s)
JanitorUnlock ==
  /\ Alive
  /\ pc["janitor"] = "j_unlock"
  /\ branchMutex' = "free"
  /\ wakeAt' = now + SleepSecs
  /\ pc' = [pc EXCEPT !["janitor"] = "j_sleep"]
  /\ UNCHANGED <<connVars, now, receivedBranches, hist>>

\* a second passes; a sleep that is over returns, and the scan is done,
\* before the next second
Tick ==
  /\ Alive
  /\ now < MaxTime
  /\ \/ pc["janitor"] = "done"
     \/ pc["janitor"] = "j_sleep" /\ now < wakeAt
  /\ now' = now + 1
  /\ UNCHANGED <<connVars, pc, hist, wakeAt, receivedBranches, branchMutex>>

\* the upper layer records branch b as seen now, under c.branchMutex
SeenLock(b) ==
  /\ Alive
  /\ pc["u1"] = "idle"
  /\ branchMutex = "free"
  /\ branchMutex' = "u1"
  /\ arg' = [arg EXCEPT !["u1"].bytes = b]
  /\ pc' = [pc EXCEPT !["u1"] = "seen_put"]
  /\ UNCHANGED <<transport, hasListener, closed, locked, writeBuffer, readMessage,
                 udpReceiver, udpClosed, registered, sockClosed, stream, streamErr,
                 wire, res, after, calls, inputs, fault, hist,
                 now, wakeAt, receivedBranches>>

SeenPut ==
  /\ Alive
  /\ pc["u1"] = "seen_put"
  /\ receivedBranches' =
       [b \in DOMAIN receivedBranches \cup {arg["u1"].bytes} |->
          IF b = arg["u1"].bytes THEN now ELSE receivedBranches[b]]
  /\ branchMutex' = "free"
  /\ pc' = [pc EXCEPT !["u1"] = "idle"]
  /\ UNCHANGED <<connVars, now, wakeAt, hist>>

(***************************************************************************)
(* Specifications.                                                         *)
(***************************************************************************)
\* Spec: the lifecycle.  The connection, its transport reader, the listener
\* or the peer feeding it requests, an API caller u1 that reads, writes,
\* flushes and closes in any order, and a second task u2 that closes.
ReaderStep ==
  \/ UdpRecv
  \/ UdpSend
  \/ TcpRead
  \/ TcpSend
  \/ CloseSet("reader")
  \/ CloseFin("reader")

InputStep ==
  \/ RegCall(DgRequest)
  \/ RegSend
  \/ PeerSend(DgRequest)
  \/ \E e \in {"EOF", "ERR"} : PeerEnd(e)

CallStep(u) ==
  \/ ReadCall(u)
  \/ WriteCall(u, <<65>>)
  \/ FlushCall(u)
  \/ CloseCall(u)

UserStep(u) ==
  \/ ReadRecv(u)
  \/ WriteApp(u)
  \/ FlushSend(u)
  \/ FlushReset(u)
  \/ CloseSet(u)
  \/ CloseFin(u)

Next ==
  \/ ReaderStep
  \/ InputStep
  \/ CallStep("u1")
  \/ CloseCall("u2")
  \/ \E u \in Users : UserStep(u)

Spec == Init /\ [][Next]_vars

\* SendSpec: the write path.  One API caller that writes and flushes, while
\* the reader is fed keep-alive probes and requests; nobody but the TCP
\* reader closes.
SendInit == Start({"udp", "tcp"}, SendInput, SendCalls)

SendNext ==
  \/ UdpRecv
  \/ UdpKeepAlive
  \/ UdpSend
  \/ TcpRead
  \/ TcpSend
  \/ WriteApp("reader")
  \/ CloseSet("reader")
  \/ CloseFin("reader")
  \/ \E d \in {KeepAliveProbe, DgRequest} : RegCall(d)
  \/ RegSend
  \/ PeerSend(DgRequest)
  \/ \E e \in {"EOF", "ERR"} : PeerEnd(e)
  \/ \E b \in WriteArgs : WriteCall("u1", b)
  \/ FlushCall("u1")
  \/ WriteApp("u1")
  \/ FlushSend("u1")
  \/ FlushReset("u1")

SendSpec == SendInit /\ [][SendNext]_vars

\* RecvSpec: the read path.  The transport reader fed every kind of input,
\* and one API caller that reads; nobody but the TCP reader closes.
RecvInit == Start({"udp", "tcp"}, RecvInput, RecvCalls)

RecvNext ==
  \/ UdpRecv
  \/ UdpKeepAlive
  \/ UdpSend
  \/ TcpRead
  \/ TcpSend
  \/ WriteApp("reader")
  \/ CloseSet("reader")
  \/ CloseFin("reader")
  \/ \E d \in Datagrams : RegCall(d)
  \/ RegSend
  \/ \E m \in Messages : PeerSend(m)
  \/ \E e \in {"EOF", "UEOF", "ERR"} : PeerEnd(e)
  \/ ReadCall("u1")
  \/ ReadRecv("u1")

RecvSpec == RecvInit /\ [][RecvNext]_vars

\* GateSpec: the exclusive read gate on an open UDP connection.  The reader
\* fed requests and responses, the dispatcher calling readRequest, and a
\* caller that does Lock(), Read() any number of times, Unlock().
GateInit == Start({"udp"}, GateInput, GateCalls)

GateNext ==
  \/ UdpRecv
  \/ UdpSend
  \/ \E d \in {DgRequest, DgResponse} : RegCall(d)
  \/ RegSend
  \/ DispClosed
  \/ DispLock
  \/ DispRecv
  \/ DispCheck
  \/ DispRequeue
  \/ (~locked /\ Lock("u1"))
  \/ (locked /\ ReadCall("u1"))
  \/ (locked /\ pc["u1"] = "idle" /\ Unlock("u1"))
  \/ ReadRecv("u1")

GateSpec == GateInit /\ [][GateNext]_vars

\* LiveSpec: shutdown.  The reader, the janitor, a caller of Read() and a
\* task that closes.  The Go scheduler runs every goroutine that can take a
\* step: weak fairness of each task's own steps.  Nothing obliges the
\* environment to call or to send.
LiveInit == Start({"udp", "tcp"}, LiveInput, LiveCalls)

LiveReader ==
  \/ UdpRecv
  \/ UdpSend
  \/ TcpRead
  \/ TcpSend
  \/ CloseSet("reader")
  \/ CloseFin("reader")

LiveCaller ==
  \/ ReadRecv("u1")
  \/ CloseSet("u2")
  \/ CloseFin("u2")

LiveNext ==
  \/ LiveReader
  \/ LiveCaller
  \/ BranchJanitor
  \/ RegCall(DgRequest)
  \/ RegSend
  \/ PeerSend(DgRequest)
  \/ \E e \in {"EOF", "ERR"} : PeerEnd(e)
  \/ ReadCall("u1")
  \/ CloseCall("u2")

LiveSpec ==
  /\ LiveInit
  /\ [][LiveNext]_vars
  /\ WF_vars(LiveReader)
  /\ WF_vars(LiveCaller)
  /\ WF_vars(BranchJanitor)

\* SniffSpec: the choice of the decoder.  Both readers fed requests and
\* responses, the UDP reader also a datagram of two bytes, and a caller
\* that reads.
SniffInit == Start({"udp", "tcp"}, SniffInput, SniffCalls)

SniffNext ==
  \/ ReaderStep
  \/ \E d \in {DgShort, DgResponse, DgRequest} : RegCall(d)
  \/ RegSend
  \/ \E m \in {DgResponse, DgRequest} : PeerSend(m)
  \/ PeerEnd("EOF")
  \/ ReadCall("u1")
  \/ ReadRecv("u1")

SniffSpec == SniffInit /\ [][SniffNext]_vars

\* DispSpec: readRequest on a connection nobody locks.  The UDP reader fed
\* requests, responses and malformed requests, the dispatcher as the only
\* consumer, and a task that may close.
DispInit == Start({"udp"}, DispInput, DispCalls)

DispNext ==
  \/ UdpRecv
  \/ UdpSend
  \/ \E d \in {DgRequest, DgResponse, DgRequestBad} : RegCall(d)
  \/ RegSend
  \/ DispClosed
  \/ DispLock
  \/ DispRecv
  \/ DispCheck
  \/ CloseCall("u2")
  \/ CloseSet("u2")
  \/ CloseFin("u2")

DispSpec == DispInit /\ [][DispNext]_vars

\* FlagSpec: every operation at once.  The reader, the dispatcher, the
\* janitor, the listener or the peer, and a caller that makes any API call
\* in any order.
FlagInit == Start({"udp", "tcp"}, FlagInput, FlagCalls)

FlagNext ==
  \/ ReaderStep
  \/ UdpKeepAlive
  \/ WriteApp("reader")
  \/ \E d \in {DgRequest, KeepAliveProbe} : RegCall(d)
  \/ RegSend
  \/ PeerSend(DgRequest)
  \/ PeerEnd("EOF")
  \/ DispClosed
  \/ DispLock
  \/ DispRecv
  \/ DispCheck
  \/ DispRequeue
  \/ BranchJanitor
  \/ CallStep("u1")
  \/ Lock("u1")
  \/ Unlock("u1")
  \/ UserStep("u1")

FlagSpec == FlagInit /\ [][FlagNext]_vars

\* JanitorSpec: the branch table on the clock.  The janitor, the upper layer
\* recording branches at any second, and a task that may close the
\* connection.
JanitorInit == Start({"tcp"}, 0, JanitorCalls)

JanitorNext ==
  \/ Tick
  \/ JanitorWake
  \/ JanitorLock
  \/ JanitorScan
  \/ JanitorUnlock
  \/ \E b \in Branches : SeenLock(b)
  \/ SeenPut
  \/ CloseCall("u2")
  \/ CloseSet("u2")
  \/ CloseFin("u2")

JanitorSpec == JanitorInit /\ [][JanitorNext]_vars

(***************************************************************************)
(* Claims.                                                                 *)
(***************************************************************************)
Count(q, Test(_)) == Len(SelectSeq(q, Test))

\* C1 (Spec): a Read() that began after some Close() had returned returns
\* io.EOF, and a Write() or Flush() that began then returns io.ErrClosedPipe,
\* whatever the inbound queue and the write buffer hold; none of them gets
\* past its check of c.closed.
C1_AfterCloseFails ==
  \A u \in Users :
    /\ (res[u].after /\ res[u].op = "Read") => res[u].code = "EOF"
    /\ (res[u].after /\ res[u].op \in {"Write", "Flush"})
         => res[u].code = "ErrClosedPipe"
    /\ after[u] => pc[u] \notin {"read_recv", "write_app", "flush_send", "flush_reset"}

\* the case of C1: the caller's last call, a Read() made after Close() had
\* returned, with a unit still queued and bytes still buffered
C1_Witness ==
  /\ res["u1"].after
  /\ res["u1"].op = "Read"
  /\ res["u1"].code = "EOF"
  /\ calls["u1"] = 0
  /\ readMessage # <<>>
  /\ writeBuffer # <<>>

\* C2 (Spec): whatever tasks call Close() and however the calls interleave,
\* the close effects happen at most once (one deletion from udpPool, one
\* close of the datagram queue, one close of the socket) and nothing panics.
C2_CloseOnce ==
  /\ fault # "close of closed channel"
  /\ hist.deregs <= 1
  /\ hist.udpCloses <= 1
  /\ hist.sockCloses <= 1

\* C3 (LiveSpec): a Read() caller blocked on the empty inbound queue of a
\* closed connection eventually returns io.EOF.
C3_BlockedReadEnds ==
  (closed /\ pc["u1"] = "read_recv" /\ readMessage = <<>>)
    ~> (pc["u1"] = "idle" /\ res["u1"].op = "Read" /\ res["u1"].code = "EOF")

\* C4 (GateSpec): the units Read() returns to the holder of the gate within
\* one Lock() session are consecutive units of the reader's enqueue order:
\* no gap and no repeat, whatever the dispatcher does meanwhile.
C4_GateExact ==
  \A i \in 1 .. Len(hist.session) - 1 :
    hist.session[i + 1] = hist.session[i] + 1

\* C5 (GateSpec): units leave the inbound queue for their consumers in the
\* order the transport reader enqueued them (a unit the dispatcher puts back
\* counts when it leaves the queue for good).
C5_DeliveryInOrder ==
  \A i \in 1 .. Len(hist.delivered) - 1 :
    hist.delivered[i] < hist.delivered[i + 1]

\* C6 (SendSpec): on a UDP connection every Flush() that got past its check
\* of c.closed made exactly one transmission, and the payload of each is the
\* concatenation, in call order, of the bytes passed to Write() since the
\* buffer was last reset.
C6_FlushSendsWrites ==
  transport = "udp" =>
    /\ \A i \in 1 .. Len(wire) : wire[i].payload = wire[i].expect
    /\ Len(wire) = hist.flushed + Cardinality({u \in Users : pc[u] = "flush_reset"})

\* the case of C6: Write("A"), Write("B"), Flush() sent the one datagram "AB"
C6_Witness ==
  /\ transport = "udp"
  /\ ~closed
  /\ hist.flushed = 1
  /\ Len(wire) = 1
  /\ wire[1].payload = <<65, 66>>
  /\ wire[1].ok

\* C7 (SendSpec): whenever the UDP reader is back at its receive, the
\* connection has sent one datagram "\r\n" for every keep-alive probe the
\* reader handled while the connection was open.
C7_ProbeAnswered ==
  (transport = "udp" /\ pc["reader"] = "u_recv")
    => Count(wire, LAMBDA w : w.payload = KeepAliveReply) = hist.probes

\* C8 (RecvSpec): the UDP reader enqueues nothing for a keep-alive probe: no
\* unit in the queue, held by the reader or returned by Read() comes from a
\* probe, and the units enqueued are exactly the decodings of the other
\* datagrams received, in order.
C8_ProbeNeverEnqueued ==
  transport = "udp" =>
    LET others == SelectSeq(hist.rcvd, LAMBDA d : d # KeepAliveProbe)
        held == IF pc["reader"] = "u_send" THEN 1 ELSE 0
    IN /\ \A i \in 1 .. Len(readMessage) : readMessage[i].src # KeepAliveProbe
       /\ arg["reader"].unit.src # KeepAliveProbe
       /\ res["u1"].unit.src # KeepAliveProbe
       /\ Len(hist.enq) + held = Len(others)
       /\ \A i \in 1 .. Len(hist.enq) :
            /\ hist.enq[i].src = others[i]
            /\ hist.enq[i].id = i
            /\ hist.enq[i].kind \in {"Request", "Response", "ParseError"}

\* the case of C8: a probe received between two other datagrams, both of
\* which were enqueued
C8_Witness ==
  /\ transport = "udp"
  /\ Len(hist.rcvd) = 3
  /\ hist.rcvd[2] = KeepAliveProbe
  /\ hist.rcvd[1] # KeepAliveProbe
  /\ hist.rcvd[3] # KeepAliveProbe
  /\ Len(hist.enq) = 2
  /\ res["u1"].code = "unit"

\* C9 (LiveSpec): once the connection is closed, the transport reader and the
\* branch janitor both terminate.
C9_TasksEnd ==
  closed ~> (pc["reader"] = "done" /\ pc["janitor"] = "done")

\* C10 (Spec): the TCP reader never goes on to enqueue a unit after a sniff
\* read that failed.
C10_SniffFailureTerminal ==
  (transport = "tcp" /\ pc["reader"] = "t_send") => ~hist.sniffFailed

\* C11 (JanitorSpec): with the janitor waking every 10 s, it never removes an
\* entry of the branch table whose age is 30 s or less, no entry of an open
\* connection is older than 40 s (it is gone by T+41 s), and the janitor
\* scans and removes only while it holds the branch-table lock.
C11_EvictionBounds ==
  /\ \A a \in hist.evicted : a > MaxAgeSecs
  /\ ~closed => \A b \in DOMAIN receivedBranches :
                  now - receivedBranches[b] <= MaxAgeSecs + SleepSecs
  /\ pc["janitor"] \in {"j_scan", "j_unlock"} => branchMutex = "janitor"
  /\ pc["u1"] = "seen_put" => branchMutex = "u1"

\* the case of C11: an entry recorded at second 0 was still there after the
\* tick at 30 s and went at the tick at 40 s
C11_Witness ==
  /\ ~closed
  /\ now = MaxAgeSecs + SleepSecs
  /\ hist.evicted = {MaxAgeSecs + SleepSecs}
  /\ receivedBranches = [b \in {} |-> 0]

\* C12 (SendSpec): a Flush() that attempted its transmission leaves nothing
\* of what it tried to send in the write buffer, whether the transmission
\* succeeded or failed: the buffer holds only the bytes written since the
\* last attempt ended, so the bytes of a failed flush are in no later
\* transmission; and Flush() returns the error of its own attempt.
C12_FlushAlwaysResets ==
  /\ writeBuffer = hist.written
  /\ \A i \in 1 .. Len(wire) : \A j \in i + 1 .. Len(wire) :
       ~wire[i].ok => wire[j].payload = wire[j].expect
  /\ pc["u1"] = "flush_reset"
       => arg["u1"].err = IF wire[Len(wire)].ok THEN "nil" ELSE "ioerr"
  /\ (pc["u1"] = "idle" /\ res["u1"].op = "Flush" /\ res["u1"].code # "ErrClosedPipe")
       => /\ wire # <<>>
          /\ res["u1"].code = IF wire[Len(wire)].ok THEN "nil" ELSE "ioerr"

\* the case of C12: Write("A"), a Flush() that failed, and a second Flush()
\* that succeeded and sent nothing
C12_Witness ==
  /\ ~closed
  /\ Len(wire) = 2
  /\ wire[1].payload = <<65>>
  /\ ~wire[1].ok
  /\ wire[2].payload = <<>>
  /\ wire[2].ok
  /\ pc["u1"] = "idle"
  /\ res["u1"].code = "nil"
  /\ writeBuffer = <<>>

\* C13 (RecvSpec): a message that does not decode costs nothing but itself:
\* on both transports the reader enqueues one unit per message received, in
\* order, a ParseError exactly for the malformed ones; the connection is
\* closed by nothing but the TCP reader at the end of the stream, and the
\* reader stops for nothing else.
C13_DecodeFailureNotFatal ==
  LET msgs == SelectSeq(hist.rcvd, LAMBDA d : d # KeepAliveProbe)
      units == SelectSeq(hist.enq, LAMBDA u : u.src # ZeroBuf)
      held == IF /\ pc["reader"] \in {"u_send", "t_send"}
                 /\ arg["reader"].unit.src # ZeroBuf
                THEN 1 ELSE 0
  IN /\ Len(units) + held = Len(msgs)
     /\ \A i \in 1 .. Len(units) :
          /\ units[i].src = msgs[i]
          /\ units[i].kind = "ParseError" <=> Malformed(msgs[i])
     /\ closed => (transport = "tcp" /\ IsEndOfStream(streamErr))
     /\ pc["reader"] = "done" => closed

\* the case of C13: on TCP a malformed response, read by the caller as a
\* ParseError, and the request after it enqueued on the open connection
C13_Witness ==
  /\ transport = "tcp"
  /\ ~closed
  /\ Len(hist.enq) = 2
  /\ hist.enq[1].src = DgResponseBad
  /\ hist.enq[1].kind = "ParseError"
  /\ hist.enq[2].kind = "Request"
  /\ res["u1"].unit = hist.enq[1]

\* C14 (FlagSpec): no step of any task takes c.closed from true back to
\* false, and the only step that sets it is line 209 of Close(), whoever
\* calls it.
C14_ClosedMonotonic ==
  [][/\ closed => closed'
     /\ (~closed /\ closed')
          => \E t \in Procs : pc[t] = "close_set" /\ pc'[t] = "close_fin"]_vars

\* the case of C14: the connection is closed, the dispatcher and the janitor
\* have seen it, and the caller has since called Unlock()
C14_Witness ==
  /\ closed
  /\ pc["disp"] = "done"
  /\ pc["janitor"] = "done"
  /\ res["u1"].op = "Unlock"
  /\ res["u1"].after

\* C15 (SniffSpec): for every input that is no keep-alive probe the reader
\* calls exactly one decoder, ReadResponse if and only if the first three
\* bytes of the input are "SIP" and ReadRequest otherwise, and enqueues its
\* result; no input makes the choice fail or depend on anything else.
C15_DispatchOnPrefix ==
  LET held == IF pc["reader"] \in {"u_send", "t_send"} THEN 1 ELSE 0
  IN /\ fault # "slice bounds out of range"
     /\ Len(hist.enq) + held = Len(hist.rcvd)
     /\ \A i \in 1 .. Len(hist.enq) :
          /\ hist.enq[i].via = "ReadResponse" <=> Take(hist.enq[i].src, 3) = SipPrefix
          /\ hist.enq[i].via = "ReadRequest" <=> Take(hist.enq[i].src, 3) # SipPrefix
          /\ hist.enq[i].kind = IF hist.enq[i].via = "ReadResponse"
                                  THEN ReadResponse(hist.enq[i].src)
                                  ELSE ReadRequest(hist.enq[i].src)

\* C16 (DispSpec): on a connection nobody locks, readRequest() takes the
\* units in queue order, skipping none; each unit it has taken is classified
\* before the next is taken: a Request is returned as the request, a
\* ParseError as the error, a Response is discarded; when it has returned,
\* the unit returned is the last one taken; and it returns the end of stream
\* only after a check that found the connection closed, and then stops.
C16_FirstRequestOrError ==
  LET r == res["disp"]
      n == Len(hist.delivered)
  IN /\ \A i \in 1 .. n : hist.delivered[i] = i
     /\ r.code = "request" => r.unit.kind = "Request"
     /\ r.code = "error" => r.unit.kind = "ParseError"
     /\ r.code = "discarded" => r.unit.kind = "Response"
     /\ (pc["disp"] \in {"q_closed", "q_lock", "q_recv"} /\ n > 0)
          => (r.code \in {"request", "error", "discarded"} /\ r.unit = hist.enq[n])
     /\ r.code = "EOF" <=> pc["disp"] = "done"
     /\ pc["disp"] = "done" => closed

\* the case of C16: a response, a request and one more unit were enqueued;
\* readRequest() discarded the response, returned the request and has taken
\* nothing after it
C16_Witness ==
  /\ ~closed
  /\ Len(hist.enq) = 3
  /\ hist.enq[1].kind = "Response"
  /\ hist.enq[2].kind = "Request"
  /\ hist.delivered = <<1, 2>>
  /\ pc["disp"] = "q_closed"
  /\ res["disp"].code = "request"
  /\ res["disp"].unit = hist.enq[2]
  /\ readMessage = <<hist.enq[3]>>

\* C17 (GateSpec): after Unlock(), with the gate unlocked and no Read() in
\* progress, the dispatcher and the transport reader are never both waiting
\* to send on the full inbound queue: the dispatcher putting back a unit it
\* took while the gate was locked, the reader enqueuing the next one.
C17_RequeueNeverWedges ==
  ~(/\ ~closed
    /\ ~locked
    /\ res["u1"].op = "Unlock"
    /\ pc["u1"] = "idle"
    /\ pc["disp"] = "q_requeue"
    /\ pc["reader"] = "u_send"
    /\ Len(readMessage) = QueueCap)

\* C18 (Spec): writeReceivedUDP(b) never sends on the datagram queue after
\* a Close() has closed it: no interleaving of the two ends in the panic of
\* a send on a closed channel, and a call that returned either handed its
\* datagram to the queue or dropped it on a closed connection.
C18_InjectionSafe ==
  /\ fault # "send on closed channel"
  /\ res["reg"].code = "dropped" => closed
  /\ res["reg"].code = "sent" => hist.rcvd # <<>> \/ udpReceiver # <<>>

\* C19 (SendSpec): every datagram a caller's Flush() sends on a UDP
\* connection holds the bytes of the caller's own Write() calls and nothing
\* else: no CR or LF of a keep-alive reply is in it.
C19_CallerBytesOnly ==
  transport = "udp" =>
    \A i \in 1 .. Len(wire) :
      wire[i].by \in Users =>
        \A j \in 1 .. Len(wire[i].payload) : wire[i].payload[j] \in {65, 66}

=============================================================================
